---- MODULE Spec2Model ----
\* Model of FDALabelAnalyzer (src/LabelAnalyzer.py): the recursive walk that
\* accumulates per-field statistics, and the report built from them.
EXTENDS Integers, Sequences, FiniteSets, TLC

\* ---------------------------------------------------------------- bounds
\* Number of documents walked by one analyzer in a behaviour.
MaxDocs == 4

\* ------------------------------------------------------- program constants
SampleLimit == 3        \* len(sample_values) < 3
HtmlSampleLimit == 1    \* len(sample_values) < 1
SampleChars == 100      \* value[:100]
PreviewChars == 200     \* get_text(strip=True)[:200]

\* ---------------------------------------------------------------- strings
\* A Python str is a sequence of lexemes.  A lexeme is a run of n characters:
\*   k = "text"    n characters of the text named s (a prefix when cut)
\*   k = "open"    an opening tag <s> (code: its data-sectioncode, "" if none)
\*   k = "close"   a closing tag </s>
\*   k = "comment" a <!-- ... --> comment: matches <[^>]+> but is no element
Txt(s, n) == [k |-> "text", s |-> s, code |-> "", n |-> n]
Lit(s) == <<Txt(s, 1)>>
Open(tag, n) == [k |-> "open", s |-> tag, code |-> "", n |-> n]
OpenCode(tag, code, n) == [k |-> "open", s |-> tag, code |-> code, n |-> n]
Close(tag, n) == [k |-> "close", s |-> tag, code |-> "", n |-> n]
Comment(n) == [k |-> "comment", s |-> "", code |-> "", n |-> n]

RECURSIVE StrLen(_)
\* len(value)
StrLen(toks) ==
  IF toks = <<>> THEN 0 ELSE Head(toks).n + StrLen(Tail(toks))

RECURSIVE Slice(_, _)
\* value[:n]
Slice(toks, n) ==
  IF toks = <<>> \/ n <= 0 THEN <<>>
  ELSE IF Head(toks).n <= n
       THEN <<Head(toks)>> \o Slice(Tail(toks), n - Head(toks).n)
       ELSE <<[Head(toks) EXCEPT !.n = n]>>

Digit(d) == Txt(<<"0", "1", "2", "3", "4", "5", "6", "7", "8", "9">>[d + 1], 1)

RECURSIVE DecStr(_)
\* str(n) / f"{n}" for a non-negative int
DecStr(n) == IF n < 10 THEN <<Digit(n)>> ELSE DecStr(n \div 10) \o <<Digit(n % 10)>>

Ellipsis == <<Txt("...", 3)>>
HtmlMark == <<Txt("[HTML] ", 7)>>

\* ----------------------------------------------------------------- values
\* JSON values as json.load returns them.
JDict(items) == [t |-> "dict", items |-> items]
JList(elems) == [t |-> "list", elems |-> elems]
JStr(toks) == [t |-> "str", toks |-> toks]
JInt(v) == [t |-> "int", v |-> v]
JBool(v) == [t |-> "bool", v |-> v]
JNull == [t |-> "null"]

\* str(value) for the scalars that reach the final else branch
PyStr(value) ==
  CASE value.t = "int" -> DecStr(value.v)
    [] value.t = "bool" -> <<IF value.v THEN Txt("True", 4) ELSE Txt("False", 5)>>
    [] value.t = "null" -> <<Txt("None", 4)>>

\* ------------------------------------------------------------ field paths
\* A key or a field path is a sequence of atoms; Sep is the "." character and
\* Idx0 the "[0]" marker.
Sep == "."
Idx0 == "[0]"

\* f"{prefix}{key}" if prefix else key
FieldKey(prefix, key) == IF prefix # <<>> THEN prefix \o key ELSE key

RECURSIVE Split(_)
\* field.split('.')
Split(field) ==
  IF \A i \in 1..Len(field) : field[i] # Sep THEN <<field>>
  ELSE LET i == CHOOSE j \in 1..Len(field) :
                  field[j] = Sep /\ \A h \in 1..(j - 1) : field[h] # Sep
       IN <<SubSeq(field, 1, i - 1)>> \o Split(SubSeq(field, i + 1, Len(field)))

\* ------------------------------------------------------------ field_stats
\* The defaultdict: keys in insertion order, and the accumulator of each key.
NewStats == [count |-> 0, sample_values |-> <<>>, html_tags |-> {},
             max_length |-> 0, has_tables |-> FALSE, has_lists |-> FALSE,
             section_codes |-> {}]

EmptyFieldStats == [keys |-> <<>>, stats |-> <<>>]

\* self.field_stats[field_key], default-constructed when missing
Get(fs, field_key) ==
  IF field_key \in DOMAIN fs.stats THEN fs.stats[field_key] ELSE NewStats

\* the store after an assignment into self.field_stats[field_key]
Put(fs, field_key, acc) ==
  [keys |-> IF field_key \in DOMAIN fs.stats THEN fs.keys
            ELSE Append(fs.keys, field_key),
   stats |-> (field_key :> acc) @@ fs.stats]

\* ----------------------------------------------------------- markup texts
\* re.search(r'<[^>]+>', text)
is_html(toks) == \E i \in 1..Len(toks) : toks[i].k \in {"open", "close", "comment"}

\* soup.find_all(): the elements of the parsed markup, one per opening tag
FindAll(toks) == {i \in 1..Len(toks) : toks[i].k = "open"}

\* soup.get_text(strip=True): the text strings, markup and comments dropped
GetText(toks) == SelectSeq(toks, LAMBDA tok : tok.k = "text")

\* f"[HTML] {text_content}..."
HtmlSample(toks) == HtmlMark \o Slice(GetText(toks), PreviewChars) \o Ellipsis

\* analyze_html_content assigning the tag set and the flags of this text
\* instead of merging them
analyze_html_content_Overwrites(fs, field_key, html) ==
  LET acc == Get(fs, field_key)
      tags == {html[i].s : i \in FindAll(html)}
      codes == {html[i].code : i \in {j \in FindAll(html) : html[j].code # ""}}
  IN Put(fs, field_key,
         [acc EXCEPT
            !.sample_values = IF Len(@) < HtmlSampleLimit
                              THEN Append(@, HtmlSample(html)) ELSE @,
            !.html_tags = tags,
            !.has_tables = "table" \in tags,
            !.has_lists = tags \cap {"ul", "ol"} # {},
            !.section_codes = @ \cup codes])

\* analyze_html_content storing its preview under the limit of the plain
\* samples
analyze_html_content_SampleLimit(fs, field_key, html) ==
  LET acc == Get(fs, field_key)
      tags == {html[i].s : i \in FindAll(html)}
      codes == {html[i].code : i \in {j \in FindAll(html) : html[j].code # ""}}
  IN Put(fs, field_key,
         [acc EXCEPT
            !.sample_values = IF Len(@) < SampleLimit
                              THEN Append(@, HtmlSample(html)) ELSE @,
            !.html_tags = @ \cup tags,
            !.has_tables = IF "table" \in tags THEN TRUE ELSE @,
            !.has_lists = IF tags \cap {"ul", "ol"} # {} THEN TRUE ELSE @,
            !.section_codes = @ \cup codes])

\* _analyze_html_content(field_key, html)
analyze_html_content(fs, field_key, html) ==
  LET acc == Get(fs, field_key)
      tags == {html[i].s : i \in FindAll(html)}
      codes == {html[i].code : i \in {j \in FindAll(html) : html[j].code # ""}}
  IN Put(fs, field_key,
         [acc EXCEPT
            !.sample_values = IF Len(@) < HtmlSampleLimit
                              THEN Append(@, HtmlSample(html)) ELSE @,
            !.html_tags = @ \cup tags,
            !.has_tables = IF "table" \in tags THEN TRUE ELSE @,
            !.has_lists = IF tags \cap {"ul", "ol"} # {} THEN TRUE ELSE @,
            !.section_codes = @ \cup codes])

\* ------------------------------------------------------------- the walker
Max(a, b) == IF a >= b THEN a ELSE b

\* f"[Array with {len(value)} items]"
ArraySample(value) ==
  <<Txt("[Array with ", 12)>> \o DecStr(Len(value.elems)) \o <<Txt(" items]", 7)>>

\* value[:100] + "..." if len(value) > 100 else value
TextSample(toks) ==
  IF StrLen(toks) > SampleChars THEN Slice(toks, SampleChars) \o Ellipsis ELSE toks

\* ObserveList without the count increment
ObserveList_NoCount(fs, field_key, value) ==
  LET acc == Get(fs, field_key)
  IN Put(fs, field_key,
         [acc EXCEPT !.sample_values = Append(@, ArraySample(value))])

\* the isinstance(value, list) branch, before the recursion
ObserveList(fs, field_key, value) ==
  LET acc == Get(fs, field_key)
  IN Put(fs, field_key,
         [acc EXCEPT !.count = @ + 1,
                     !.sample_values = Append(@, ArraySample(value))])

\* value and isinstance(value[0], dict)
FirstIsDict(value) == value.elems # <<>> /\ value.elems[1].t = "dict"

\* CountStr keeping the length of the latest text
CountStr_LastLength(fs, field_key, value) ==
  LET acc == Get(fs, field_key)
  IN Put(fs, field_key,
         [acc EXCEPT !.count = @ + 1,
                     !.max_length = StrLen(value.toks)])

\* count and max_length of the isinstance(value, str) branch
CountStr(fs, field_key, value) ==
  LET acc == Get(fs, field_key)
  IN Put(fs, field_key,
         [acc EXCEPT !.count = @ + 1,
                     !.max_length = Max(@, StrLen(value.toks))])

\* the regular-string branch: store a sample
StorePlain(fs, field_key, value) ==
  LET acc == Get(fs, field_key)
  IN IF Len(acc.sample_values) < SampleLimit
     THEN Put(fs, field_key,
              [acc EXCEPT !.sample_values = Append(@, TextSample(value.toks))])
     ELSE Put(fs, field_key, acc)

\* the isinstance(value, str) branch
ObserveStr(fs, field_key, value) ==
  LET fs1 == CountStr(fs, field_key, value)
  IN IF is_html(value.toks)
     THEN analyze_html_content(fs1, field_key, value.toks)
     ELSE StorePlain(fs1, field_key, value)

\* ObserveOther counting a value only while its sample is stored
ObserveOther_CountsSampled(fs, field_key, value) ==
  LET acc == Get(fs, field_key)
  IN Put(fs, field_key,
         IF Len(acc.sample_values) < SampleLimit /\ PyStr(value) \notin
              {acc.sample_values[i] : i \in 1..Len(acc.sample_values)}
         THEN [acc EXCEPT !.count = @ + 1,
                          !.sample_values = Append(@, PyStr(value))]
         ELSE acc)

\* the final else branch (numbers, booleans, null)
ObserveOther(fs, field_key, value) ==
  LET acc == Get(fs, field_key)
      acc1 == [acc EXCEPT !.count = @ + 1]
  IN Put(fs, field_key,
         IF Len(acc1.sample_values) < SampleLimit
         THEN [acc1 EXCEPT !.sample_values = Append(@, PyStr(value))]
         ELSE acc1)

RECURSIVE analyze_drug(_, _, _)
RECURSIVE AnalyzeItems(_, _, _, _)

\* AnalyzeItem counting an object value at its own path before entering it
AnalyzeItem_CountsObjects(fs, prefix, key, value) ==
  LET field_key == FieldKey(prefix, key)
  IN CASE value.t = "dict" ->
            analyze_drug(Put(fs, field_key,
                             [Get(fs, field_key) EXCEPT !.count = @ + 1]),
                         value, field_key \o <<Sep>>)
       [] value.t = "list" ->
            LET fs1 == ObserveList(fs, field_key, value)
            IN IF FirstIsDict(value)
               THEN analyze_drug(fs1, value.elems[1], field_key \o <<Idx0, Sep>>)
               ELSE fs1
       [] value.t = "str" -> ObserveStr(fs, field_key, value)
       [] OTHER -> ObserveOther(fs, field_key, value)

\* AnalyzeItem entering the last element of an array instead of the first
AnalyzeItem_LastElement(fs, prefix, key, value) ==
  LET field_key == FieldKey(prefix, key)
  IN CASE value.t = "dict" -> analyze_drug(fs, value, field_key \o <<Sep>>)
       [] value.t = "list" ->
            LET fs1 == ObserveList(fs, field_key, value)
            IN IF FirstIsDict(value) /\ value.elems[Len(value.elems)].t = "dict"
               THEN analyze_drug(fs1, value.elems[Len(value.elems)],
                                 field_key \o <<Idx0, Sep>>)
               ELSE fs1
       [] value.t = "str" -> ObserveStr(fs, field_key, value)
       [] OTHER -> ObserveOther(fs, field_key, value)

\* the body of the for loop of _analyze_drug for one key, value pair
AnalyzeItem(fs, prefix, key, value) ==
  LET field_key == FieldKey(prefix, key)
  IN CASE value.t = "dict" -> analyze_drug(fs, value, field_key \o <<Sep>>)
       [] value.t = "list" ->
            LET fs1 == ObserveList(fs, field_key, value)
            IN IF FirstIsDict(value)
               THEN analyze_drug(fs1, value.elems[1], field_key \o <<Idx0, Sep>>)
               ELSE fs1
       [] value.t = "str" -> ObserveStr(fs, field_key, value)
       [] OTHER -> ObserveOther(fs, field_key, value)

\* for key, value in drug.items(), from the i-th item on
AnalyzeItems(fs, items, i, prefix) ==
  IF i > Len(items) THEN fs
  ELSE AnalyzeItems(AnalyzeItem(fs, prefix, items[i][1], items[i][2]),
                    items, i + 1, prefix)

\* _analyze_drug(drug, prefix)
analyze_drug(fs, drug, prefix) == AnalyzeItems(fs, drug.items, 1, prefix)

\* ------------------------------------------------------------- the report
\* Values held in the data_structure tree: nested dicts, the 'type' strings
\* and the 'occurrences' ints.
TDict(m) == [k |-> "dict", m |-> m]
TStr(v) == [k |-> "str", v |-> v]
TInt(v) == [k |-> "int", v |-> v]
\* the TypeError raised when a str or an int is indexed by a path part
TypeError == [k |-> "TypeError"]

TypeKey == <<"type">>
OccKey == <<"occurrences">>

\* {'type': 'html' if html_tags else 'text', 'occurrences': count}
LeafInfo(acc) ==
  TDict((TypeKey :> TStr(IF acc.html_tags # {} THEN "html" ELSE "text"))
        @@ (OccKey :> TInt(acc.count)))

RECURSIVE InsertLeaf(_, _, _)
\* the descent along parts[:-1] and the assignment current[leaf_name] = ...,
\* as the tree that results below the node current
InsertLeaf(current, parts, leaf) ==
  IF current.k # "dict" THEN TypeError
  ELSE IF Len(parts) = 1
       THEN TDict((parts[1] :> leaf) @@ current.m)
       ELSE LET part == parts[1]
                child == IF part \notin DOMAIN current.m
                         THEN TDict(<<>>) ELSE current.m[part]
                sub == InsertLeaf(child, Tail(parts), leaf)
            IN IF sub = TypeError THEN TypeError
               ELSE TDict((part :> sub) @@ current.m)

RECURSIVE BuildFrom(_, _, _)
\* for field in self.field_stats.keys(), from the i-th key on
BuildFrom(tree, fs, i) ==
  IF i > Len(fs.keys) \/ tree = TypeError THEN tree
  ELSE BuildFrom(InsertLeaf(tree, Split(fs.keys[i]), LeafInfo(fs.stats[fs.keys[i]])),
                 fs, i + 1)

\* _build_structure_tree()
build_structure_tree(fs) == BuildFrom(TDict(<<>>), fs, 1)

\* the atoms of the model's alphabet whose lower-cased text contains one of
\* 'indication', 'dosage', 'warning', 'adverse', 'clinical'
KeywordAtoms == {"warnings", "indication", "dosage", "adverse", "clinical"}

\* any(keyword in field.lower() for keyword in [...])
IsKeySection(field) == \E i \in 1..Len(field) : field[i] \in KeywordAtoms

\* the field_info of one accumulator
FieldInfo(acc) ==
  [occurrences |-> acc.count,
   max_length |-> acc.max_length,
   samples |-> SubSeq(acc.sample_values, 1,
                      IF Len(acc.sample_values) < SampleLimit
                      THEN Len(acc.sample_values) ELSE SampleLimit),
   is_html |-> acc.html_tags # {},
   html_tags |-> acc.html_tags,
   has_tables |-> acc.has_tables,
   has_lists |-> acc.has_lists,
   section_codes |-> acc.section_codes]

\* _generate_report(): the report, or the TypeError of the tree builder
generate_report(fs) ==
  LET tree == build_structure_tree(fs)
  IN IF tree = TypeError THEN TypeError
     ELSE [k |-> "report",
           total_fields |-> Len(fs.keys),
           field_analysis |-> [f \in DOMAIN fs.stats |-> FieldInfo(fs.stats[f])],
           html_fields |-> SelectSeq(fs.keys, LAMBDA f : fs.stats[f].html_tags # {}),
           key_sections |-> SelectSeq(fs.keys, IsKeySection),
           data_structure |-> tree]

\* -------------------------------------------------------------- documents
\* The documents the analyzer is fed.
Key(a) == <<a>>
DottedKey(a, b) == <<a, Sep, b>>

\* {"a": "foo"}
DocFoo == JDict(<< <<Key("a"), JStr(<<Txt("foo", 3)>>)>> >>)
\* {"a": "<b>bar</b>"}
DocBar == JDict(<< <<Key("a"),
                    JStr(<<Open("b", 3), Txt("bar", 3), Close("b", 4)>>)>> >>)
\* {"a": {"b": 1}}
DocObj == JDict(<< <<Key("a"), JDict(<< <<Key("b"), JInt(1)>> >>)>> >>)
\* {"items": [{"x": 1}, {"x": 2}]}
DocItems ==
  JDict(<< <<Key("items"), JList(<<JDict(<< <<Key("x"), JInt(1)>> >>),
                                   JDict(<< <<Key("x"), JInt(2)>> >>)>>)>> >>)
\* {"a": {"type": true}}
DocType == JDict(<< <<Key("a"), JDict(<< <<Key("type"), JBool(TRUE)>> >>)>> >>)
\* {"a": {"type": {"x": null}}, "a.b": "ab"}
DocDeep ==
  JDict(<< <<Key("a"),
             JDict(<< <<Key("type"), JDict(<< <<Key("x"), JNull>> >>)>> >>)>>,
           <<DottedKey("a", "b"), JStr(<<Txt("ab", 2)>>)>> >>)
\* {"a": "LLL..."}, 150 characters of plain text
DocLong == JDict(<< <<Key("a"), JStr(<<Txt("L", 150)>>)>> >>)
\* {"name": "Aspirin", "warnings": "<p data-sectioncode='W1'>Risk</p>",
\*  "a": "<!-- c -->"}
DocLabel ==
  JDict(<< <<Key("name"), JStr(<<Txt("Aspirin", 7)>>)>>,
           <<Key("warnings"),
             JStr(<<OpenCode("p", "W1", 25), Txt("Risk", 4), Close("p", 4)>>)>>,
           <<Key("a"), JStr(<<Comment(10)>>)>> >>)
\* {"a": "<table><tr>TTT...</tr></table><ul><li>x</li></ul>"}, 250 characters
\* of text in the table
DocTable ==
  JDict(<< <<Key("a"),
             JStr(<<Open("table", 7), Open("tr", 4), Txt("T", 250), Close("tr", 5),
                    Close("table", 8), Open("ul", 4), Open("li", 4), Txt("x", 1),
                    Close("li", 5), Close("ul", 5)>>)>> >>)
\* {"a": [1, {"x": 1}], "b": [[{"x": 1}]], "c": []}
DocArrays ==
  JDict(<< <<Key("a"), JList(<<JInt(1), JDict(<< <<Key("x"), JInt(1)>> >>)>>)>>,
           <<Key("b"), JList(<<JList(<<JDict(<< <<Key("x"), JInt(1)>> >>)>>)>>)>>,
           <<Key("c"), JList(<<>>)>> >>)

Docs == {DocFoo, DocBar, DocObj, DocItems, DocType, DocDeep, DocLong, DocLabel,
         DocTable, DocArrays}

\* The parsed contents of the files analyze_json_file is given: one object,
\* or an array of objects.
Files == {DocFoo, DocLabel, JList(<<>>), JList(<<DocFoo, DocBar>>),
          JList(<<DocObj, DocFoo>>)}

\* ------------------------------------------------------------------ state
\* self.field_stats
VARIABLE field_stats
\* the documents passed to _analyze_drug so far, in call order
VARIABLE walked
\* what the most recent call returned
VARIABLE returned

vars == <<field_stats, walked, returned>>

None == [k |-> "None"]

Init ==
  /\ field_stats = EmptyFieldStats
  /\ walked = <<>>
  /\ returned = None

\* self._analyze_drug(drug)
AnalyzeDrug(drug) ==
  /\ Len(walked) < MaxDocs
  /\ field_stats' = analyze_drug(field_stats, drug, <<>>)
  /\ walked' = Append(walked, drug)
  /\ returned' = None

\* self._generate_report()
GenerateReport ==
  /\ returned' = generate_report(field_stats)
  /\ UNCHANGED <<field_stats, walked>>

RECURSIVE AnalyzeAll(_, _, _)
\* for drug in drugs: self._analyze_drug(drug)
AnalyzeAll(fs, drugs, i) ==
  IF i > Len(drugs) THEN fs
  ELSE AnalyzeAll(analyze_drug(fs, drugs[i], <<>>), drugs, i + 1)

\* data if isinstance(data, list) else [data]
DrugsOf(data) == IF data.t = "list" THEN data.elems ELSE <<data>>

\* analyze_json_file(file_path), data the parsed contents of the file
AnalyzeJsonFile(data) ==
  LET drugs == DrugsOf(data)
      fs == AnalyzeAll(field_stats, drugs, 1)
  IN /\ Len(walked) + Len(drugs) <= MaxDocs
     /\ field_stats' = fs
     /\ walked' = walked \o drugs
     /\ returned' = generate_report(fs)

Next ==
  \/ \E drug \in Docs : AnalyzeDrug(drug)
  \/ GenerateReport
  \/ \E data \in Files : AnalyzeJsonFile(data)

Spec == Init /\ [][Next]_vars

TypeOK ==
  /\ Len(field_stats.keys) = Cardinality(DOMAIN field_stats.stats)
  /\ \A i \in 1..Len(field_stats.keys) : field_stats.keys[i] \in DOMAIN field_stats.stats
  /\ Len(walked) <= MaxDocs

\* ----------------------------------------------------------------- claims
Paths == DOMAIN field_stats.stats
Acc(p) == field_stats.stats[p]
\* the accumulator of p after a step
AccNext(p) == field_stats'.stats[p]
\* the accumulator of p before a step, all-default when p is not yet a key
Old(p) == IF p \in Paths THEN Acc(p) ELSE NewStats
\* a step that walks exactly one more document
WalksOne == Len(walked') = Len(walked) + 1 /\ SubSeq(walked', 1, Len(walked)) = walked
Last(seq) == seq[Len(seq)]
Items(d) == {d.items[i] : i \in 1..Len(d.items)}

\* C1: after any sequence of _analyze_drug calls the sample list of every
\* field accumulator has length at most 3, whatever value types were observed.
C1_SamplesAtMostThree ==
  \A p \in Paths : Len(Acc(p).sample_values) <= 3

RECURSIVE Follow(_, _)
\* the node reached from node along parts, Missing when the way is not there
Missing == [k |-> "missing"]
Follow(node, parts) ==
  IF parts = <<>> THEN node
  ELSE IF node.k = "dict" /\ Head(parts) \in DOMAIN node.m
       THEN Follow(node.m[Head(parts)], Tail(parts))
       ELSE Missing

\* the node at field path p carries p's type classification and count
HasLeafInfo(tree, p) ==
  LET node == Follow(tree, Split(p))
  IN /\ node.k = "dict"
     /\ TypeKey \in DOMAIN node.m
     /\ OccKey \in DOMAIN node.m
     /\ node.m[TypeKey] = TStr(IF Acc(p).html_tags # {} THEN "html" ELSE "text")
     /\ node.m[OccKey] = TInt(Acc(p).count)

\* C2: for every field path present when _generate_report runs, the
\* data_structure tree followed along the path's segments ends at a node whose
\* 'type' is 'html' iff the tag set is non-empty (else 'text') and whose
\* 'occurrences' is the field's count, for any set of field paths.
C2_TreeHasEveryLeaf ==
  returned.k = "report" =>
    \A p \in Paths : HasLeafInfo(returned.data_structure, p)

\* parts of p is a proper prefix of the parts of q
PassesThrough(q, p) ==
  LET pp == Split(p)
      qq == Split(q)
  IN Len(pp) < Len(qq) /\ SubSeq(qq, 1, Len(pp)) = pp

\* C3: inserting a path that passes through a position already holding a leaf
\* never overwrites that leaf's info: the 'type' and 'occurrences' entries of
\* the shorter path are present and unchanged in the finished tree.
C3_LeafNotOverwritten ==
  returned.k = "report" =>
    \A i, j \in 1..Len(field_stats.keys) :
      (i < j /\ PassesThrough(field_stats.keys[j], field_stats.keys[i]))
        => HasLeafInfo(returned.data_structure, field_stats.keys[i])

\* the shape classes of the claim: object, array, text, other scalar
ShapeOf(v) == IF v.t \in {"dict", "list", "str"} THEN v.t ELSE "scalar"

RECURSIVE Appearances(_, _, _)
\* the <<path, shape, text length>> of every value a walk of items meets from
\* the i-th item on under prefix: objects are entered, arrays through their
\* first element when it is an object
Appearances(items, i, prefix) ==
  IF i > Len(items) THEN <<>>
  ELSE LET path == prefix \o items[i][1]
           v == items[i][2]
       IN <<<<path, ShapeOf(v), IF v.t = "str" THEN StrLen(v.toks) ELSE 0>>>>
          \o (CASE v.t = "dict" -> Appearances(v.items, 1, path \o <<Sep>>)
                [] v.t = "list" /\ v.elems # <<>> /\ v.elems[1].t = "dict" ->
                     Appearances(v.elems[1].items, 1, path \o <<Idx0, Sep>>)
                [] OTHER -> <<>>)
          \o Appearances(items, i + 1, prefix)

\* the appearances of path p in document d
AppearancesAt(d, p) == SelectSeq(Appearances(d.items, 1, <<>>), LAMBDA a : a[1] = p)
PathsIn(d) == LET as == Appearances(d.items, 1, <<>>) IN {as[i][1] : i \in 1..Len(as)}

\* p appears once in each of the two walked documents, with different shapes
Collides(p) ==
  /\ Len(walked) = 2
  /\ Len(AppearancesAt(walked[1], p)) = 1
  /\ Len(AppearancesAt(walked[2], p)) = 1
  /\ AppearancesAt(walked[1], p)[1][2] # AppearancesAt(walked[2], p)[1][2]

\* one of the two colliding values at p is an object
ObjectAt(p) ==
  "dict" \in {AppearancesAt(walked[1], p)[1][2], AppearancesAt(walked[2], p)[1][2]}

\* C4 (as stated): when the same field path has different shapes in two
\* documents walked in sequence, object shapes included, both observations
\* count and the path's count after both documents is 2.
C4_AnyShapesCountTwo ==
  Len(walked) = 2 =>
    \A p \in PathsIn(walked[1]) :
      Collides(p) => (p \in Paths /\ Acc(p).count = 2)

\* C4 (amended): when the same field path has different non-object shapes
\* (text, array, number/boolean/null) in two documents walked in sequence, its
\* count after both is 2; when one of the two values is an object, only the
\* other one is counted at that path and the count is 1.
C4_NonObjectShapesCountTwo ==
  Len(walked) = 2 =>
    \A p \in PathsIn(walked[1]) :
      Collides(p) =>
        /\ p \in Paths
        /\ Acc(p).count = IF ObjectAt(p) THEN 1 ELSE 2

C4_Witness ==
  /\ walked = <<DocObj, DocDeep>>
  /\ Collides(Key("a") \o <<Sep>> \o Key("b"))
  /\ ~ObjectAt(Key("a") \o <<Sep>> \o Key("b"))
  /\ Acc(DottedKey("a", "b")).count = 2

\* C5: has_tables, has_lists and html_tags are monotonic across observations:
\* a flag once true stays true, the tag set only grows, and a field that is
\* is_html stays is_html whatever is observed next at its path.
C5_MarkupMonotonic ==
  [][\A p \in Paths :
       /\ p \in Paths'
       /\ Acc(p).has_tables => AccNext(p).has_tables
       /\ Acc(p).has_lists => AccNext(p).has_lists
       /\ Acc(p).html_tags \subseteq AccNext(p).html_tags
       /\ FieldInfo(Acc(p)).is_html => FieldInfo(AccNext(p)).is_html]_vars

C5_Witness ==
  /\ Len(walked) >= 3
  /\ walked[1] = DocTable
  /\ walked[2] = DocFoo
  /\ walked[3] = DocBar
  /\ Acc(Key("a")).has_tables
  /\ Acc(Key("a")).has_lists
  /\ Acc(Key("a")).html_tags = {"table", "tr", "ul", "li", "b"}

\* the lengths of all text values observed at path p so far
ObservedLengths(p) ==
  UNION {LET as == AppearancesAt(walked[i], p)
         IN {as[n][3] : n \in {m \in 1..Len(as) : as[m][2] = "str"}}
         : i \in 1..Len(walked)}

Greatest(S) == IF S = {} THEN 0 ELSE CHOOSE m \in S : \A x \in S : m >= x

\* C6: max_length never decreases, and after any sequence of walked documents
\* it equals the greatest length of the text values (markup or plain) observed
\* at the path, 0 if none was.
C6_MaxLength ==
  /\ [](\A p \in Paths : Acc(p).max_length = Greatest(ObservedLengths(p)))
  /\ [][\A p \in Paths : AccNext(p).max_length >= Acc(p).max_length]_vars

C6_Witness ==
  /\ walked = <<DocBar, DocLong, DocFoo, DocArrays>>
  /\ ObservedLengths(Key("a")) = {10, 150, 3}
  /\ Acc(Key("a")).max_length = 150

\* C7: walking a document a second time doubles the count every field path
\* had after the first walk, and creates no further field path.
C7_TwiceDoubles ==
  [][(Len(walked) = 1 /\ WalksOne /\ walked'[2] = walked[1]) =>
       /\ Paths' = Paths
       /\ field_stats'.keys = field_stats.keys
       /\ \A p \in Paths : AccNext(p).count = 2 * Acc(p).count]_vars

C7_Witness ==
  /\ walked = <<DocDeep, DocDeep>>
  /\ Acc(<<"a", Sep, "type", Sep, "x">>).count = 2
  /\ Acc(DottedKey("a", "b")).count = 2

\* C8: in every reachable state each field's count is at least the number of
\* samples in its sample list.
C8_CountCoversSamples ==
  \A p \in Paths : Acc(p).count >= Len(Acc(p).sample_values)

C8_Witness ==
  \E p \in Paths : /\ Len(Acc(p).sample_values) = 4
                    /\ Acc(p).count = 4
                    /\ \E q \in Paths : Acc(q).count > Len(Acc(q).sample_values)

\* a document whose values are all arrays, the first element of each being
\* no object or an object of scalars
ArrayDoc(d) ==
  /\ d.items # <<>>
  /\ \A it \in Items(d) :
       /\ it[2].t = "list"
       /\ (it[2].elems # <<>> /\ it[2].elems[1].t = "dict") =>
            \A sub \in Items(it[2].elems[1]) : sub[2].t \in {"int", "bool", "null"}

\* the items of the first element of the array value v when it is an object
FirstItems(v) ==
  IF v.elems # <<>> /\ v.elems[1].t = "dict" THEN Items(v.elems[1]) ELSE {}

\* "[Array with n items]" for n < 10
ArrayNote(n) == <<Txt("[Array with ", 12), Digit(n), Txt(" items]", 7)>>

\* C9: an array at path p adds one to p's count and one sample noting the
\* array length, and the walk recurses with prefix 'p[0].' iff the array is
\* non-empty and its first element is an object; nothing else is created or
\* updated.  {"items":[{"x":1},{"x":2}]} yields exactly 'items' with count 1
\* and 'items[0].x' with count 1 and sample "1".
C9_ArrayFirstElementOnly ==
  /\ [](walked = <<DocItems>> =>
          /\ field_stats.keys = <<Key("items"), <<"items", Idx0, Sep, "x">>>>
          /\ Acc(Key("items")).count = 1
          /\ Acc(Key("items")).sample_values = <<ArrayNote(2)>>
          /\ Acc(<<"items", Idx0, Sep, "x">>).count = 1
          /\ Acc(<<"items", Idx0, Sep, "x">>).sample_values = <<Lit("1")>>)
  /\ [][(WalksOne /\ ArrayDoc(Last(walked'))) =>
          LET d == Last(walked')
              nested == UNION {{it[1] \o <<Idx0, Sep>> \o sub[1] : sub \in FirstItems(it[2])}
                               : it \in Items(d)}
              top == {it[1] : it \in Items(d)}
          IN /\ Paths' = Paths \cup top \cup nested
             /\ \A p \in Paths \ (top \cup nested) : AccNext(p) = Acc(p)
             /\ \A it \in Items(d) :
                  /\ AccNext(it[1]).count = Old(it[1]).count + 1
                  /\ AccNext(it[1]).sample_values =
                       Append(Old(it[1]).sample_values, ArrayNote(Len(it[2].elems)))
                  /\ \A sub \in FirstItems(it[2]) :
                       AccNext(it[1] \o <<Idx0, Sep>> \o sub[1]).count =
                         Old(it[1] \o <<Idx0, Sep>> \o sub[1]).count + 1]_vars

C9_Witness ==
  /\ walked = <<DocItems, DocArrays, DocItems>>
  /\ Paths = {Key("items"), <<"items", Idx0, Sep, "x">>, Key("a"), Key("b"), Key("c")}
  /\ Acc(<<"items", Idx0, Sep, "x">>).sample_values = <<Lit("1"), Lit("1")>>

\* a document whose values are all texts
TextDoc(d) == d.items # <<>> /\ \A it \in Items(d) : it[2].t = "str"

\* C10: a markup-like text appends a markup-flagged preview iff the sample
\* list is empty at that moment; a plain text appends a sample, cut to at most
\* 100 characters plus an ellipsis, iff fewer than 3 samples are stored.
\* Walking {"a":"foo"} then {"a":"<b>bar</b>"} leaves a with count 2, the one
\* sample "foo", a tag set containing "b", and is_html true.
C10_TextSamples ==
  /\ [](walked = <<DocFoo, DocBar>> =>
          /\ Acc(Key("a")).count = 2
          /\ Acc(Key("a")).sample_values = <<<<Txt("foo", 3)>>>>
          /\ "b" \in Acc(Key("a")).html_tags
          /\ FieldInfo(Acc(Key("a"))).is_html)
  /\ [][(WalksOne /\ TextDoc(Last(walked'))) =>
          \A it \in Items(Last(walked')) :
            LET toks == it[2].toks
                old == Old(it[1]).sample_values
                new == AccNext(it[1]).sample_values
                markup == \E i \in 1..Len(toks) : toks[i].k # "text"
                appended == Len(new) = Len(old) + 1 /\ SubSeq(new, 1, Len(old)) = old
            IN /\ appended \/ new = old
               /\ markup => /\ (appended <=> (old = <<>>))
                             /\ (appended => (SubSeq(Last(new), 1, 1) = HtmlMark))
               /\ (~markup) =>
                     /\ (appended <=> (Len(old) < 3))
                     /\ appended =>
                          /\ StrLen(Last(new)) <= 100 + 3
                          /\ Last(new) = IF StrLen(toks) > 100
                                          THEN Slice(toks, 100) \o Ellipsis ELSE toks]_vars

C10_Witness ==
  /\ walked = <<DocLabel, DocLong, DocBar, DocFoo>>
  /\ Len(Acc(Key("a")).sample_values) = 3
  /\ StrLen(Acc(Key("a")).sample_values[2]) = 103

====
